---- MODULE Spec2Model ----
(***************************************************************************)
(* Model of big12ChampionshipOdds.py: the schedule loader, the season      *)
(* simulator, the standings resolver with its tie-break engine, and the    *)
(* Monte Carlo loop of runSimulations.                                     *)
(*                                                                         *)
(* Team identifiers are the integers 1..n; the alphabetical order of the   *)
(* names is the order of the integers, so the sorted team list             *)
(* bigTwelveTeams and every sorted list of distinct names (tiedTeams,      *)
(* winners) is a set of integers read in increasing order.                 *)
(* Probabilities are integer hundredths (100 is 1.0), so 1.0 - p is        *)
(* 100 - p, and a draw of random.random() is an integer hundredth in       *)
(* 0..99.                                                                  *)
(***************************************************************************)
EXTENDS Integers, Sequences, FiniteSets

VARIABLES
    pc,                     \* position of the program
    rawGames,               \* rows of big12Games.csv: <<team1, team2, prob>>
    bigTwelveTeams,         \* global team list (sorted, distinct)
    games,                  \* [home, away, prob, res] per fixture
    teams,                  \* team -> [wins, tieWins, first, second, place]
    championshipMatchups,   \* <<i, j>> (i < j) -> count
    totalRandomTiebreakers, \* runSimulations accumulator
    simulationNumber,       \* completed trials
    gameIndex,              \* simulateGames: index of the next game
    randomValue,            \* simulateGames: the draw of the last game
    currentPlace,           \* determineStandings: place being filled
    randomTiebreakersUsed,  \* determineStandings: local counter
    firstPlaceTeam,         \* determineStandings: local
    secondPlaceTeam,        \* determineStandings: local
    tiedTeams,              \* argument of the outermost resolveTiebreaker
    winners,                \* resolveTiebreaker: working group
    usedRandom,             \* resolveTiebreaker: flag returned
    step,                   \* resolveTiebreaker: criterion that ended the last pass
    iters                   \* resolveTiebreaker: passes made for tiedTeams

vars == <<pc, rawGames, bigTwelveTeams, games, teams, championshipMatchups,
          totalRandomTiebreakers, simulationNumber, gameIndex, randomValue,
          currentPlace, randomTiebreakersUsed, firstPlaceTeam, secondPlaceTeam,
          tiedTeams, winners, usedRandom, step, iters>>

----------------------------------------------------------------------------
(* Bounds and program constants *)

\* trials run by the model (numberOfRuns is 100000 in the source)
MaxRuns == 2
\* largest conference of the generated schedules
MaxTeams == 4
\* most fixtures of a freely drawn season
MaxGamesTie == 3
\* games per team in loadGameData's count check
GamesPerTeam == 9
\* rows dropped from a schedule to make the count check fail
MissingRows == 3

MaxOf(S) == CHOOSE x \in S : \A y \in S : y <= x
MinOf(S) == CHOOSE x \in S : \A y \in S : x <= y

----------------------------------------------------------------------------
(* Tie-break criteria *)

RECURSIVE SumOver(_, _)
SumOver(f, S) ==
    IF S = {} THEN 0
    ELSE LET x == CHOOSE y \in S : TRUE IN f[x] + SumOver(f, S \ {x})

\* getHeadToHeadRecord that counts every game of a listed team
getHeadToHeadRecordAnyGame(G, T, teamList) ==
    [t \in DOMAIN T |->
        Cardinality({i \in 1..Len(G) :
            /\ (G[i].home \in teamList \/ G[i].away \in teamList)
            /\ \/ G[i].res = 1 /\ t = G[i].home
               \/ G[i].res = 0 /\ t = G[i].away})]

\* getHeadToHeadRecord: tieWins after the call
getHeadToHeadRecord(G, T, teamList) ==
    [t \in DOMAIN T |->
        Cardinality({i \in 1..Len(G) :
            /\ G[i].home \in teamList
            /\ G[i].away \in teamList
            /\ \/ G[i].res = 1 /\ t = G[i].home
               \/ G[i].res = 0 /\ t = G[i].away})]

\* getRecordVsCommonOpponents: tieWins after the call
getRecordVsCommonOpponents(G, T, teamList, opponentList) ==
    [t \in DOMAIN T |->
        Cardinality({io \in (1..Len(G)) \X opponentList :
            /\ t \in teamList
            /\ IF G[io[1]].home = t /\ G[io[1]].away = io[2]
               THEN G[io[1]].res = 1
               ELSE /\ G[io[1]].away = t /\ G[io[1]].home = io[2]
                    /\ G[io[1]].res = 0})]

\* the opponents list built for one team at lines 175-180, as a set
OpponentsOf(G, t) ==
    {G[i].away : i \in {j \in 1..Len(G) : G[j].home = t}}
        \cup {G[i].home : i \in {j \in 1..Len(G) : G[j].away = t /\ G[j].home # t}}

findCommonOpponents(G, T, teamList) ==
    {o \in DOMAIN T :
        /\ o \notin teamList
        /\ \A t \in (DOMAIN T) \cap teamList : o \in OpponentsOf(G, t)}

RECURSIVE OpponentWinsUpTo(_, _, _, _)
OpponentWinsUpTo(G, T, t, n) ==
    IF n = 0 THEN 0
    ELSE OpponentWinsUpTo(G, T, t, n - 1)
         + (IF G[n].home = t THEN T[G[n].away].wins
            ELSE IF G[n].away = t THEN T[G[n].home].wins
            ELSE 0)

\* calculateOpponentStrength: tieWins after the call
calculateOpponentStrength(G, T, teamList) ==
    [t \in DOMAIN T |-> OpponentWinsUpTo(G, T, t, Len(G))]

\* the teams of the group with the highest tieWins
Leaders(tw, group) ==
    {t \in group : tw[t] = MaxOf({tw[u] : u \in group})}

\* TwoTeamHeadToHead that gives the tie to the home side of the fixture
TwoTeamHeadToHeadHomeSide(G, group) ==
    LET idx == {i \in 1..Len(G) : G[i].home \in group /\ G[i].away \in group}
    IN  IF idx = {} THEN group ELSE {G[MinOf(idx)].home}

\* lines 226-238: the first fixture between the two teams decides
TwoTeamHeadToHead(G, group) ==
    LET a == MinOf(group)
        b == MaxOf(group)
        idx == {i \in 1..Len(G) :
                    \/ G[i].home = a /\ G[i].away = b
                    \/ G[i].home = b /\ G[i].away = a}
    IN  IF idx = {} THEN group
        ELSE LET g == G[MinOf(idx)]
             IN  IF g.home = a /\ g.away = b
                 THEN (IF g.res = 1 THEN {a} ELSE {b})
                 ELSE (IF g.res = 1 THEN {b} ELSE {a})

\* MultiHeadToHead without the emptiness test of line 326
MultiHeadToHeadNoEmptyTest(G, T, group) ==
    LET tw == getHeadToHeadRecord(G, T, group)
        k == Cardinality(group)
    IN  [tw |-> tw,
         w |-> IF SumOver(tw, group) = ((k - 1) * k) \div 2
               THEN Leaders(tw, group)
               ELSE {t \in group : tw[t] = k - 1}]

\* lines 307-328: head-to-head among a group of three or more
MultiHeadToHead(G, T, group) ==
    LET tw == getHeadToHeadRecord(G, T, group)
        k == Cardinality(group)
        total == SumOver(tw, group)
        expectedGames == ((k - 1) * k) \div 2
        full == Leaders(tw, group)
        relaxed == {t \in group : tw[t] = k - 1}
    IN  [tw |-> tw,
         w |-> IF total = expectedGames THEN full
               ELSE IF relaxed # {} THEN relaxed ELSE group]

\* TieredCommonOpponents that lets the lowest tier that separates decide
RECURSIVE TieredCommonOpponentsLowestFirst(_, _, _, _, _, _)
TieredCommonOpponentsLowestFirst(G, T, group, commonOpponents, recordLevel, tw) ==
    IF recordLevel < 0 THEN [w |-> group, tw |-> tw]
    ELSE LET lower == TieredCommonOpponentsLowestFirst(G, T, group, commonOpponents,
                                                       recordLevel - 1, tw)
             opponentsAtLevel ==
                 {o \in commonOpponents : T[o].wins = recordLevel}
             rec == getRecordVsCommonOpponents(G, T, group, opponentsAtLevel)
             newWinners == Leaders(rec, group)
         IN  IF lower.w # group THEN lower
             ELSE IF opponentsAtLevel # {} /\ newWinners # group
             THEN [w |-> newWinners, tw |-> rec]
             ELSE [w |-> group, tw |-> IF opponentsAtLevel # {} THEN rec ELSE lower.tw]

\* lines 249-267 and 335-354: the tiers from recordLevel down to 0
RECURSIVE TieredCommonOpponents(_, _, _, _, _, _)
TieredCommonOpponents(G, T, group, commonOpponents, recordLevel, tw) ==
    IF recordLevel < 0 THEN [w |-> group, tw |-> tw]
    ELSE LET opponentsAtLevel ==
                 {o \in commonOpponents : T[o].wins = recordLevel}
             rec == getRecordVsCommonOpponents(G, T, group, opponentsAtLevel)
             newWinners == Leaders(rec, group)
         IN  IF opponentsAtLevel = {}
             THEN TieredCommonOpponents(G, T, group, commonOpponents,
                                        recordLevel - 1, tw)
             ELSE IF MaxOf({rec[u] : u \in group}) > 0 /\ newWinners # group
             THEN [w |-> newWinners, tw |-> rec]
             ELSE TieredCommonOpponents(G, T, group, commonOpponents,
                                        recordLevel - 1, rec)

\* RecordVsAllCommon that takes the record against every team outside the group
RecordVsAllOutside(G, T, group, commonOpponents, tw) ==
    LET rec == getRecordVsCommonOpponents(G, T, group, DOMAIN T \ group)
        newWinners == Leaders(rec, group)
    IN  [w |-> IF MaxOf({rec[u] : u \in group}) > 0 THEN newWinners ELSE group,
         tw |-> rec]

\* lines 273-281 and 360-369: record against all common opponents
RecordVsAllCommon(G, T, group, commonOpponents, tw) ==
    IF commonOpponents = {} THEN [w |-> group, tw |-> tw]
    ELSE LET rec == getRecordVsCommonOpponents(G, T, group, commonOpponents)
             newWinners == Leaders(rec, group)
         IN  [w |-> IF MaxOf({rec[u] : u \in group}) > 0 THEN newWinners ELSE group,
              tw |-> rec]

\* lines 287-293 and 372-379: strength of schedule
StrengthOfSchedule(G, T, group) ==
    LET tw == calculateOpponentStrength(G, T, group)
    IN  [w |-> Leaders(tw, group), tw |-> tw]

TieWinsOf(T) == [t \in DOMAIN T |-> T[t].tieWins]

\* CommonAndStrength without the strength of schedule
CommonAndStrengthNoSchedule(G, T, group, tw0) ==
    LET commonOpponents == findCommonOpponents(G, T, group)
        tier == TieredCommonOpponents(G, T, group, commonOpponents,
                                      MaxOf({T[t].wins : t \in DOMAIN T}), tw0)
        all == RecordVsAllCommon(G, T, group, commonOpponents, tier.tw)
    IN  IF tier.w # group THEN [w |-> tier.w, tw |-> tier.tw, step |-> "tier"]
        ELSE IF all.w # group THEN [w |-> all.w, tw |-> all.tw, step |-> "all"]
        ELSE [w |-> group, tw |-> all.tw, step |-> "random"]

\* criteria 2 to 5 of one pass, shared by the two-team and the multi-team code:
\* the group left, the scratch column left, and the criterion that ended the pass
CommonAndStrength(G, T, group, tw0) ==
    LET maxWins == MaxOf({T[t].wins : t \in DOMAIN T})
        commonOpponents == findCommonOpponents(G, T, group)
        tier == TieredCommonOpponents(G, T, group, commonOpponents, maxWins, tw0)
        all == RecordVsAllCommon(G, T, group, commonOpponents, tier.tw)
        sos == StrengthOfSchedule(G, T, group)
    IN  IF tier.w # group THEN [w |-> tier.w, tw |-> tier.tw, step |-> "tier"]
        ELSE IF all.w # group THEN [w |-> all.w, tw |-> all.tw, step |-> "all"]
        ELSE IF sos.w # group THEN [w |-> sos.w, tw |-> sos.tw, step |-> "sos"]
        ELSE [w |-> group, tw |-> sos.tw, step |-> "random"]

\* lines 224-301 up to the random pick
TwoTeamPass(G, T, group) ==
    LET h2h == TwoTeamHeadToHead(G, group)
    IN  IF h2h # group THEN [w |-> h2h, tw |-> TieWinsOf(T), step |-> "h2h"]
        ELSE CommonAndStrength(G, T, group, TieWinsOf(T))

\* lines 305-384, one iteration of the while loop up to the random pick
MultiTeamPass(G, T, group) ==
    LET h2h == MultiHeadToHead(G, T, group)
    IN  IF h2h.w # group THEN [w |-> h2h.w, tw |-> h2h.tw, step |-> "h2h"]
        ELSE CommonAndStrength(G, T, group, h2h.tw)

WithTieWins(T, tw) == [t \in DOMAIN T |-> [T[t] EXCEPT !.tieWins = tw[t]]]

----------------------------------------------------------------------------
(* Schedules read from big12Games.csv *)

\* probabilities a row may carry; 150 is out of range
RowProbs == {0, 50, 100, 150}
\* values of random.random(), in hundredths
Draws == {0, 99}

Fixtures(n) == {p \in (1..n) \X (1..n) : p[1] < p[2]}
PairLess(p, q) == p[1] < q[1] \/ (p[1] = q[1] /\ p[2] < q[2])
\* the k-th pair of the conference in the order of initializeChampionshipMatchups
NthFixture(n, k) ==
    CHOOSE p \in Fixtures(n) : Cardinality({q \in Fixtures(n) : PairLess(q, p)}) = k - 1

\* the pair of row r: every team against the last one ("star"), every team against
\* the next one, the last against the first ("ring"), or all pairs in turn
ShapePair(shape, n, r) ==
    IF shape = "star" THEN <<((r - 1) % (n - 1)) + 1, n>>
    ELSE IF shape = "ring" THEN <<((r - 1) % n) + 1, (r % n) + 1>>
    ELSE NthFixture(n, ((r - 1) % Cardinality(Fixtures(n))) + 1)

ExpectedGames(n) == (GamesPerTeam * n) \div 2

\* a CSV: the first row carries p1 and may be written from the second team's side,
\* the others carry rest
RawSchedule(shape, n, len, swapped, p1, rest) ==
    [r \in 1..len |->
        LET pr == ShapePair(shape, n, r)
        IN  IF r = 1
            THEN (IF swapped THEN <<pr[2], pr[1], 100 - p1>> ELSE <<pr[1], pr[2], p1>>)
            ELSE <<pr[1], pr[2], rest>>]

RawSchedules ==
    {RawSchedule(shape, n, ExpectedGames(n) + d, swapped, p1, rest) :
        shape \in {"star", "ring", "robin"}, n \in 2..MaxTeams,
        d \in {0 - MissingRows, 0, 1}, swapped \in BOOLEAN,
        p1 \in RowProbs, rest \in {0, 100}}

----------------------------------------------------------------------------
(* Seasons drawn freely: the state simulateGames may leave *)

\* five teams: three tied teams can meet two different outside opponents
TieTeams == 1..5

PlayedGames ==
    [home : TieTeams, away : TieTeams, prob : {50}, res : {0, 1}]

\* the fixtures of one pair stand together and the pairs in the order of the
\* team list; the games of one pair come in every order of results
Seasons ==
    UNION {{G \in [1..n -> PlayedGames] :
                /\ \A i \in 1..n : G[i].home < G[i].away
                /\ \A i \in 1..(n - 1) :
                       ~PairLess(<<G[i + 1].home, G[i + 1].away>>,
                                 <<G[i].home, G[i].away>>)} :
              n \in 0..MaxGamesTie}

WinsIn(G, t) ==
    Cardinality({i \in 1..Len(G) :
        \/ G[i].res = 1 /\ G[i].home = t
        \/ G[i].res = 0 /\ G[i].away = t})

----------------------------------------------------------------------------
(* loadTeamsFromCSV, loadGameData and the initialisation of runSimulations *)

NoTeams == [t \in {} |-> 0]

\* Normalize that reorders the teams and keeps the probability as written
NormalizeKeepsProbability(row) ==
    IF row[1] < row[2]
    THEN [home |-> row[1], away |-> row[2], prob |-> row[3], res |-> 0]
    ELSE [home |-> row[2], away |-> row[1], prob |-> row[3], res |-> 0]

\* lines 56-67: one raw row in normalized form
Normalize(row) ==
    IF row[1] < row[2]
    THEN [home |-> row[1], away |-> row[2], prob |-> row[3], res |-> 0]
    ELSE [home |-> row[2], away |-> row[1], prob |-> 100 - row[3], res |-> 0]

initializeTeamData ==
    [t \in bigTwelveTeams |->
        [wins |-> 0, tieWins |-> 0, first |-> 0, second |-> 0, place |-> 0]]

initializeChampionshipMatchups ==
    [m \in {p \in bigTwelveTeams \X bigTwelveTeams : p[1] < p[2]} |-> 0]

LoadTeamsFromCSV ==
    /\ pc = "start"
    /\ bigTwelveTeams' = {rawGames[i][1] : i \in 1..Len(rawGames)}
                            \cup {rawGames[i][2] : i \in 1..Len(rawGames)}
    /\ pc' = "load"
    /\ UNCHANGED <<rawGames, games, teams, championshipMatchups,
                   totalRandomTiebreakers, simulationNumber, gameIndex, randomValue,
                   currentPlace, randomTiebreakersUsed, firstPlaceTeam,
                   secondPlaceTeam, tiedTeams, winners, usedRandom, step, iters>>

\* lines 69-73: the count check fails and the program exits
LoadGameDataExit ==
    /\ pc = "load"
    /\ Len(rawGames) # (GamesPerTeam * Cardinality(bigTwelveTeams)) \div 2
    /\ pc' = "exit"
    /\ UNCHANGED <<rawGames, bigTwelveTeams, games, teams, championshipMatchups,
                   totalRandomTiebreakers, simulationNumber, gameIndex, randomValue,
                   currentPlace, randomTiebreakersUsed, firstPlaceTeam,
                   secondPlaceTeam, tiedTeams, winners, usedRandom, step, iters>>

\* LoadGameData without the count check
LoadGameDataUnchecked ==
    /\ pc = "load"
    /\ games' = [i \in 1..Len(rawGames) |-> Normalize(rawGames[i])]
    /\ teams' = initializeTeamData
    /\ championshipMatchups' = initializeChampionshipMatchups
    /\ totalRandomTiebreakers' = 0
    /\ pc' = IF simulationNumber < MaxRuns THEN "sim_reset" ELSE "done"
    /\ UNCHANGED <<rawGames, bigTwelveTeams, simulationNumber, gameIndex,
                   randomValue, currentPlace, randomTiebreakersUsed, firstPlaceTeam,
                   secondPlaceTeam, tiedTeams, winners, usedRandom, step, iters>>

\* lines 47-82 and 440-448: the games are loaded, the tracking is initialised
LoadGameData ==
    /\ pc = "load"
    /\ Len(rawGames) = (GamesPerTeam * Cardinality(bigTwelveTeams)) \div 2
    /\ games' = [i \in 1..Len(rawGames) |-> Normalize(rawGames[i])]
    /\ teams' = initializeTeamData
    /\ championshipMatchups' = initializeChampionshipMatchups
    /\ totalRandomTiebreakers' = 0
    /\ pc' = IF simulationNumber < MaxRuns THEN "sim_reset" ELSE "done"
    /\ UNCHANGED <<rawGames, bigTwelveTeams, simulationNumber, gameIndex,
                   randomValue, currentPlace, randomTiebreakersUsed, firstPlaceTeam,
                   secondPlaceTeam, tiedTeams, winners, usedRandom, step, iters>>

----------------------------------------------------------------------------
(* simulateGames *)

\* lines 106-109
SimulateReset ==
    /\ pc = "sim_reset"
    /\ teams' = [t \in DOMAIN teams |->
                    [teams[t] EXCEPT !.wins = 0, !.tieWins = 0, !.place = 0]]
    /\ gameIndex' = 1
    /\ pc' = IF Len(games) >= 1 THEN "sim_game" ELSE "ds_begin"
    /\ UNCHANGED <<rawGames, bigTwelveTeams, games, championshipMatchups,
                   totalRandomTiebreakers, simulationNumber, randomValue,
                   currentPlace, randomTiebreakersUsed, firstPlaceTeam,
                   secondPlaceTeam, tiedTeams, winners, usedRandom, step, iters>>

\* PlayGame that awards the other side only above the probability
PlayGameStrictlyAbove(T, g, d) ==
    [t \in DOMAIN T |->
        IF g.home = t
        THEN (IF d < g.prob THEN [T[t] EXCEPT !.wins = @ + 1] ELSE T[t])
        ELSE IF g.away = t
        THEN (IF d > g.prob THEN [T[t] EXCEPT !.wins = @ + 1] ELSE T[t])
        ELSE T[t]]

\* lines 113-124 for one game and one draw
PlayGame(T, g, d) ==
    [t \in DOMAIN T |->
        IF g.home = t
        THEN (IF d < g.prob THEN [T[t] EXCEPT !.wins = @ + 1] ELSE T[t])
        ELSE IF g.away = t
        THEN (IF d >= g.prob THEN [T[t] EXCEPT !.wins = @ + 1] ELSE T[t])
        ELSE T[t]]

\* GameResult that records a win of the reference team also on a draw equal to
\* the probability
GameResultAtMost(T, g, d) ==
    IF g.home \in DOMAIN T /\ d <= g.prob THEN 1 ELSE 0

\* lines 114 and 119-121: the outcome stored for the game
GameResult(T, g, d) ==
    IF g.home \in DOMAIN T /\ d < g.prob THEN 1 ELSE 0

\* lines 112-124, one iteration
SimulateGame ==
    /\ pc = "sim_game"
    /\ \E d \in Draws :
        /\ randomValue' = d
        /\ games' = [games EXCEPT ![gameIndex].res = GameResult(teams, games[gameIndex], d)]
        /\ teams' = PlayGame(teams, games[gameIndex], d)
    /\ gameIndex' = gameIndex + 1
    /\ pc' = IF gameIndex + 1 <= Len(games) THEN "sim_game" ELSE "ds_begin"
    /\ UNCHANGED <<rawGames, bigTwelveTeams, championshipMatchups,
                   totalRandomTiebreakers, simulationNumber, currentPlace,
                   randomTiebreakersUsed, firstPlaceTeam, secondPlaceTeam,
                   tiedTeams, winners, usedRandom, step, iters>>

----------------------------------------------------------------------------
(* resolveTiebreaker *)

AfterPass(group) ==
    IF Cardinality(group) > 2 THEN "tb_multi"
    ELSE IF Cardinality(group) = 2 THEN "tb_two"
    ELSE "tb_ret"

\* lines 217-224 and 304
ResolveEnter ==
    /\ pc = "tb_enter"
    /\ winners' = tiedTeams
    /\ usedRandom' = FALSE
    /\ step' = "none"
    /\ iters' = 0
    /\ pc' = AfterPass(tiedTeams)
    /\ UNCHANGED <<rawGames, bigTwelveTeams, games, teams, championshipMatchups,
                   totalRandomTiebreakers, simulationNumber, gameIndex, randomValue,
                   currentPlace, randomTiebreakersUsed, firstPlaceTeam,
                   secondPlaceTeam, tiedTeams>>

\* lines 305-384: one iteration of the multi-team loop; on leaving the loop with
\* two teams, lines 387-388 hand them to the two-team code
ResolveMultiTeam ==
    /\ pc = "tb_multi"
    /\ LET r == MultiTeamPass(games, teams, winners)
       IN  /\ teams' = WithTieWins(teams, r.tw)
           /\ step' = r.step
           /\ IF r.step = "random"
              THEN /\ \E x \in winners : winners' = {x}
                   /\ usedRandom' = TRUE
                   /\ pc' = "tb_ret"
              ELSE /\ winners' = r.w
                   /\ usedRandom' = usedRandom
                   /\ pc' = AfterPass(r.w)
    /\ iters' = iters + 1
    /\ UNCHANGED <<rawGames, bigTwelveTeams, games, championshipMatchups,
                   totalRandomTiebreakers, simulationNumber, gameIndex, randomValue,
                   currentPlace, randomTiebreakersUsed, firstPlaceTeam,
                   secondPlaceTeam, tiedTeams>>

\* lines 224-301
ResolveTwoTeam ==
    /\ pc = "tb_two"
    /\ LET r == TwoTeamPass(games, teams, winners)
       IN  /\ teams' = WithTieWins(teams, r.tw)
           /\ step' = r.step
           /\ IF r.step = "random"
              THEN /\ \E x \in winners : winners' = {x}
                   /\ usedRandom' = TRUE
              ELSE /\ winners' = r.w
                   /\ usedRandom' = FALSE
    /\ iters' = iters + 1
    /\ pc' = "tb_ret"
    /\ UNCHANGED <<rawGames, bigTwelveTeams, games, championshipMatchups,
                   totalRandomTiebreakers, simulationNumber, gameIndex, randomValue,
                   currentPlace, randomTiebreakersUsed, firstPlaceTeam,
                   secondPlaceTeam, tiedTeams>>

----------------------------------------------------------------------------
(* determineStandings *)

\* lines 127-132 with excludePlaced
findTeamsWithRecord(T, wins) ==
    {t \in DOMAIN T : T[t].wins = wins /\ T[t].place = 0}

\* MaxUnplacedWins that forgets to skip the placed teams
MaxWinsOfAll(T) ==
    MaxOf({0} \cup {T[t].wins : t \in DOMAIN T})

\* lines 400-403
MaxUnplacedWins(T) ==
    MaxOf({0} \cup {T[t].wins : t \in {u \in DOMAIN T : T[u].place = 0}})

\* lines 395-396
StandingsBegin ==
    /\ pc = "ds_begin"
    /\ randomTiebreakersUsed' = 0
    /\ currentPlace' = 1
    /\ firstPlaceTeam' = 0
    /\ secondPlaceTeam' = 0
    /\ pc' = "ds_find"
    /\ UNCHANGED <<rawGames, bigTwelveTeams, games, teams, championshipMatchups,
                   totalRandomTiebreakers, simulationNumber, gameIndex, randomValue,
                   tiedTeams, winners, usedRandom, step, iters>>

\* lines 399-408 and, with no candidate, 423
StandingsFind ==
    /\ pc = "ds_find"
    /\ tiedTeams' = findTeamsWithRecord(teams, MaxUnplacedWins(teams))
    /\ IF tiedTeams' # {}
       THEN pc' = "tb_enter" /\ currentPlace' = currentPlace
       ELSE /\ currentPlace' = currentPlace + 1
            /\ pc' = IF currentPlace + 1 <= 2 THEN "ds_find" ELSE "ds_done"
    /\ UNCHANGED <<rawGames, bigTwelveTeams, games, teams, championshipMatchups,
                   totalRandomTiebreakers, simulationNumber, gameIndex, randomValue,
                   randomTiebreakersUsed, firstPlaceTeam, secondPlaceTeam,
                   winners, usedRandom, step, iters>>

\* lines 413-421
AssignPlace(T, W, place) ==
    [t \in DOMAIN T |->
        IF t \in W
        THEN [T[t] EXCEPT !.place = place,
                          !.first = IF place = 1 THEN @ + 1 ELSE @,
                          !.second = IF place = 2 THEN @ + 1 ELSE @]
        ELSE T[t]]

\* lines 408-423: resolveTiebreaker has returned
StandingsAssign ==
    /\ pc = "tb_ret"
    /\ currentPlace \in {1, 2}
    /\ randomTiebreakersUsed' = randomTiebreakersUsed + (IF usedRandom THEN 1 ELSE 0)
    /\ teams' = AssignPlace(teams, winners, currentPlace)
    /\ firstPlaceTeam' = IF currentPlace = 1 /\ winners \cap DOMAIN teams # {}
                         THEN MaxOf(winners \cap DOMAIN teams) ELSE firstPlaceTeam
    /\ secondPlaceTeam' = IF currentPlace = 2 /\ winners \cap DOMAIN teams # {}
                          THEN MaxOf(winners \cap DOMAIN teams) ELSE secondPlaceTeam
    /\ currentPlace' = currentPlace + 1
    /\ pc' = IF currentPlace + 1 <= 2 THEN "ds_find" ELSE "ds_done"
    /\ UNCHANGED <<rawGames, bigTwelveTeams, games, championshipMatchups,
                   totalRandomTiebreakers, simulationNumber, gameIndex, randomValue,
                   tiedTeams, winners, usedRandom, step, iters>>

----------------------------------------------------------------------------
(* runSimulations: the bookkeeping of one trial *)

\* CountMatchup that looks for the matchup in the order 1st, 2nd only
CountMatchupOrdered(M, firstPlace, secondPlace) ==
    IF <<firstPlace, secondPlace>> \in DOMAIN M
    THEN [M EXCEPT ![<<firstPlace, secondPlace>>] = @ + 1]
    ELSE M

\* lines 460-464: the first matchup naming both teams is counted
CountMatchup(M, firstPlace, secondPlace) ==
    LET hits == {m \in DOMAIN M :
                    /\ (firstPlace = m[1] \/ firstPlace = m[2])
                    /\ (secondPlace = m[1] \/ secondPlace = m[2])}
    IN  IF hits = {} THEN M
        ELSE LET m0 == CHOOSE m \in hits : \A q \in hits : q = m \/ PairLess(m, q)
             IN  [M EXCEPT ![m0] = @ + 1]

\* RecordTrial that counts the trial, not its random tie-breaks
RecordTrialCountsTrials ==
    /\ pc = "ds_done"
    /\ simulationNumber < MaxRuns
    /\ totalRandomTiebreakers' =
           totalRandomTiebreakers + (IF randomTiebreakersUsed > 0 THEN 1 ELSE 0)
    /\ championshipMatchups' =
           CountMatchup(championshipMatchups, firstPlaceTeam, secondPlaceTeam)
    /\ simulationNumber' = simulationNumber + 1
    /\ pc' = IF simulationNumber + 1 < MaxRuns THEN "sim_reset" ELSE "done"
    /\ UNCHANGED <<rawGames, bigTwelveTeams, games, teams, gameIndex, randomValue,
                   currentPlace, randomTiebreakersUsed, firstPlaceTeam,
                   secondPlaceTeam, tiedTeams, winners, usedRandom, step, iters>>

\* lines 456-464, and the loop test of line 451
RecordTrial ==
    /\ pc = "ds_done"
    /\ simulationNumber < MaxRuns
    /\ totalRandomTiebreakers' = totalRandomTiebreakers + randomTiebreakersUsed
    /\ championshipMatchups' =
           CountMatchup(championshipMatchups, firstPlaceTeam, secondPlaceTeam)
    /\ simulationNumber' = simulationNumber + 1
    /\ pc' = IF simulationNumber + 1 < MaxRuns THEN "sim_reset" ELSE "done"
    /\ UNCHANGED <<rawGames, bigTwelveTeams, games, teams, gameIndex, randomValue,
                   currentPlace, randomTiebreakersUsed, firstPlaceTeam,
                   secondPlaceTeam, tiedTeams, winners, usedRandom, step, iters>>

----------------------------------------------------------------------------
(* Specifications *)

\* the program, started on a CSV
Init ==
    /\ pc = "start"
    /\ rawGames \in RawSchedules
    /\ bigTwelveTeams = {}
    /\ games = <<>>
    /\ teams = NoTeams
    /\ championshipMatchups = NoTeams
    /\ totalRandomTiebreakers = 0
    /\ simulationNumber = 0
    /\ gameIndex = 0
    /\ randomValue = 0
    /\ currentPlace = 0
    /\ randomTiebreakersUsed = 0
    /\ firstPlaceTeam = 0
    /\ secondPlaceTeam = 0
    /\ tiedTeams = {}
    /\ winners = {}
    /\ usedRandom = FALSE
    /\ step = "none"
    /\ iters = 0

Next ==
    \/ LoadTeamsFromCSV
    \/ LoadGameDataExit
    \/ LoadGameData
    \/ SimulateReset
    \/ SimulateGame
    \/ StandingsBegin
    \/ StandingsFind
    \/ StandingsAssign
    \/ ResolveEnter
    \/ ResolveMultiTeam
    \/ ResolveTwoTeam
    \/ RecordTrial

Spec == Init /\ [][Next]_vars

\* a freely drawn season just simulated: either determineStandings runs on it, or
\* resolveTiebreaker is called on one of its sets of tied teams
InitTie ==
    /\ rawGames = <<>>
    /\ bigTwelveTeams = TieTeams
    /\ games \in Seasons
    /\ teams = [t \in TieTeams |->
                   [wins |-> WinsIn(games, t), tieWins |-> 0,
                    first |-> 0, second |-> 0, place |-> 0]]
    /\ championshipMatchups = [m \in Fixtures(Cardinality(TieTeams)) |-> 0]
    /\ totalRandomTiebreakers = 0
    /\ simulationNumber = 0
    /\ gameIndex = Len(games) + 1
    /\ randomValue = 0
    /\ currentPlace = 0
    /\ randomTiebreakersUsed = 0
    /\ firstPlaceTeam = 0
    /\ secondPlaceTeam = 0
    /\ \/ pc = "ds_begin" /\ tiedTeams = {}
       \/ /\ pc = "tb_enter"
          /\ tiedTeams \in {S \in SUBSET TieTeams :
                               /\ S # {}
                               /\ \A a, b \in S : teams[a].wins = teams[b].wins}
    /\ winners = {}
    /\ usedRandom = FALSE
    /\ step = "none"
    /\ iters = 0

NextTie ==
    \/ StandingsBegin
    \/ StandingsFind
    \/ StandingsAssign
    \/ ResolveEnter
    \/ ResolveMultiTeam
    \/ ResolveTwoTeam

SpecTie == InitTie /\ [][NextTie]_vars

\* the seasons in which every pair of teams meets at most once: the fixtures
\* played, in the order of the team list, each with its result
TiePairs ==
    [k \in 1..Cardinality(Fixtures(Cardinality(TieTeams))) |->
        NthFixture(Cardinality(TieTeams), k)]

RECURSIVE SeasonsUpTo(_)
SeasonsUpTo(k) ==
    IF k = 0 THEN {<<>>}
    ELSE LET before == SeasonsUpTo(k - 1)
         IN  before \cup
             {Append(G, [home |-> TiePairs[k][1], away |-> TiePairs[k][2],
                         prob |-> 50, res |-> r]) :
                 G \in before, r \in {0, 1}}

RoundSeasons == SeasonsUpTo(Len(TiePairs))

\* resolveTiebreaker called on a set of two or more tied teams of such a season,
\* the first team of the list among them
InitRound ==
    /\ rawGames = <<>>
    /\ bigTwelveTeams = TieTeams
    /\ games \in RoundSeasons
    /\ teams = [t \in TieTeams |->
                   [wins |-> WinsIn(games, t), tieWins |-> 0,
                    first |-> 0, second |-> 0, place |-> 0]]
    /\ championshipMatchups = [m \in Fixtures(Cardinality(TieTeams)) |-> 0]
    /\ totalRandomTiebreakers = 0
    /\ simulationNumber = 0
    /\ gameIndex = Len(games) + 1
    /\ randomValue = 0
    /\ currentPlace = 0
    /\ randomTiebreakersUsed = 0
    /\ firstPlaceTeam = 0
    /\ secondPlaceTeam = 0
    /\ pc = "tb_enter"
    /\ tiedTeams \in {S \in SUBSET TieTeams :
                         /\ Cardinality(S) >= 2
                         /\ MinOf(TieTeams) \in S
                         /\ \A a, b \in S : teams[a].wins = teams[b].wins}
    /\ winners = {}
    /\ usedRandom = FALSE
    /\ step = "none"
    /\ iters = 0

NextRound ==
    \/ ResolveEnter
    \/ ResolveMultiTeam
    \/ ResolveTwoTeam

SpecRound == InitRound /\ [][NextRound]_vars

----------------------------------------------------------------------------
(* Properties *)

\* the pass that is due has a result: a non-empty part of the group
PassDue ==
    /\ pc = "tb_multi" =>
          LET r == MultiTeamPass(games, teams, winners)
          IN  r.w # {} /\ r.w \subseteq winners
    /\ pc = "tb_two" =>
          LET r == TwoTeamPass(games, teams, winners)
          IN  r.w # {} /\ r.w \subseteq winners

\* C1, the states: resolveTiebreaker returns exactly one team and it is one of the
\* candidates; it never makes more passes than there are candidates; and while
\* it runs, the loop is entered with more than two teams, the two-team code with
\* two, and the pass that is due can be made
C1_ResolveStates ==
    /\ pc = "tb_ret" => Cardinality(winners) = 1 /\ winners \subseteq tiedTeams
    /\ pc \in {"tb_multi", "tb_two", "tb_ret"} =>
          /\ iters <= Cardinality(tiedTeams)
          /\ winners \subseteq tiedTeams
    /\ pc = "tb_multi" => Cardinality(winners) > 2
    /\ pc = "tb_two" => Cardinality(winners) = 2
    /\ PassDue

\* C1, the steps: every pass leaves a proper subset of the group it started with,
\* and a pass that no criterion shrinks ends the resolution with one team
C1_ResolveStep ==
    pc \in {"tb_multi", "tb_two"} =>
        /\ winners' \subseteq winners
        /\ winners' # winners
        /\ iters' = iters + 1
        /\ step' = "random" => pc' = "tb_ret" /\ Cardinality(winners') = 1

\* C1: for every season and every non-empty set of tied teams, resolveTiebreaker
\* terminates with exactly one team of the set; each pass of the multi-team loop
\* strictly shrinks the group or ends with a random pick, and a group of k teams
\* is resolved in at most k passes, the two-team procedure included
C1_TiebreakerTerminates == [] C1_ResolveStates /\ [][C1_ResolveStep]_vars

\* a group of three or more went through the loop and then the two-team code
C1_Witness ==
    /\ pc = "tb_ret"
    /\ Cardinality(tiedTeams) >= 3
    /\ iters >= 2
    /\ Cardinality(winners) = 1

\* the fixtures between two teams, and the winner of the first of them
Meetings(G, group) ==
    {i \in 1..Len(G) : G[i].home \in group /\ G[i].away \in group}

FirstMeetingWinner(G, group) ==
    LET g == G[MinOf(Meetings(G, group))]
    IN  IF g.res = 1 THEN g.home ELSE g.away

\* C2: when the two tied teams have a fixture against each other, the two-team
\* procedure returns the winner of that game (of the first one in the schedule
\* when they met more than once) and does not report a random fallback, whatever
\* the common opponents and the strengths of schedule say
C2_HeadToHeadDecides ==
    [][(pc = "tb_two" /\ Meetings(games, winners) # {}) =>
          /\ winners' = {FirstMeetingWinner(games, winners)}
          /\ usedRandom' = FALSE
          /\ step' = "h2h"
          /\ pc' = "tb_ret"]_vars

\* two tied teams that met, where the strength of schedule favours the loser
C2_Witness ==
    /\ pc = "tb_ret"
    /\ Cardinality(tiedTeams) = 2
    /\ Meetings(games, tiedTeams) # {}
    /\ step = "h2h"
    /\ ~usedRandom
    /\ StrengthOfSchedule(games, teams, tiedTeams).w = tiedTeams \ winners

PlacedAt(T, place) == {t \in DOMAIN T : T[t].place = place}

\* C3: when determineStandings is done, exactly one team is 1st, exactly one other
\* team is 2nd and every other team is unplaced; the 1st has the most wins of
\* all teams and the 2nd the most wins of the teams other than the 1st
C3_StandingsPlaceTwo ==
    pc = "ds_done" =>
        /\ PlacedAt(teams, 1) = {firstPlaceTeam}
        /\ PlacedAt(teams, 2) = {secondPlaceTeam}
        /\ firstPlaceTeam # secondPlaceTeam
        /\ firstPlaceTeam \in DOMAIN teams /\ secondPlaceTeam \in DOMAIN teams
        /\ \A t \in DOMAIN teams \ {firstPlaceTeam, secondPlaceTeam} :
              teams[t].place = 0
        /\ \A t \in DOMAIN teams : teams[t].wins <= teams[firstPlaceTeam].wins
        /\ \A t \in DOMAIN teams \ {firstPlaceTeam} :
              teams[t].wins <= teams[secondPlaceTeam].wins

\* both places were taken from one group of three or more tied teams
C3_Witness ==
    /\ pc = "ds_done"
    /\ teams[firstPlaceTeam].wins = teams[secondPlaceTeam].wins
    /\ Cardinality({t \in DOMAIN teams :
                       teams[t].wins = teams[firstPlaceTeam].wins}) >= 3
    /\ teams[firstPlaceTeam].wins >= 1

\* no criterion of a pass shrinks the group
NothingShrinks(G, T, group) ==
    LET commonOpponents == findCommonOpponents(G, T, group)
        maxWins == MaxOf({T[t].wins : t \in DOMAIN T})
    IN  /\ IF Cardinality(group) = 2
           THEN TwoTeamHeadToHead(G, group) = group
           ELSE MultiHeadToHead(G, T, group).w = group
        /\ TieredCommonOpponents(G, T, group, commonOpponents, maxWins,
                                 TieWinsOf(T)).w = group
        /\ RecordVsAllCommon(G, T, group, commonOpponents, TieWinsOf(T)).w = group
        /\ StrengthOfSchedule(G, T, group).w = group

\* three tied teams with no game among them, no common opponent and equal
\* strength of schedule
SymmetricThree(G, T, group) ==
    /\ Cardinality(group) = 3
    /\ Meetings(G, group) = {}
    /\ findCommonOpponents(G, T, group) = {}
    /\ \A a, b \in group :
          OpponentWinsUpTo(G, T, a, Len(G)) = OpponentWinsUpTo(G, T, b, Len(G))

C4_ResolveStates ==
    /\ pc = "tb_ret" => (usedRandom <=> step = "random")
    /\ (pc = "tb_ret" /\ SymmetricThree(games, teams, tiedTeams)) =>
          /\ usedRandom
          /\ Cardinality(winners) = 1
          /\ winners \subseteq tiedTeams

C4_ResolveStep ==
    pc \in {"tb_multi", "tb_two"} =>
        /\ usedRandom' <=> step' = "random"
        /\ step' = "random" => NothingShrinks(games, teams, winners)

\* C4: resolveTiebreaker reports a random fallback exactly when the returned team
\* was picked at random, and it picks at random only when head-to-head, the tiered
\* common opponents, the record against all common opponents and the strength of
\* schedule all leave the current group as it is; three tied teams with no game
\* among them, no common opponent and equal strength of schedule get exactly one
\* of them back with the flag set
C4_RandomOnlyWhenExhausted == [] C4_ResolveStates /\ [][C4_ResolveStep]_vars

\* the three-team scenario, each of the three having played and won
C4_Witness ==
    /\ pc = "tb_ret"
    /\ SymmetricThree(games, teams, tiedTeams)
    /\ \A t \in tiedTeams : teams[t].wins >= 1
    /\ usedRandom
    /\ Cardinality(winners) = 1

\* the sum of the win totals of the distinct opponents of a team
DistinctOpponentWins(G, T, t) ==
    SumOver([o \in DOMAIN T |-> T[o].wins], OpponentsOf(G, t))

\* C10: the strength of schedule that calculateOpponentStrength leaves for a team
\* is the sum of the win totals of its opponents, each opponent counted once,
\* also when two fixtures join the same pair of teams
C10_OpponentCountedOnce ==
    (pc \in {"tb_multi", "tb_two", "tb_ret"} /\ step \in {"sos", "random"}) =>
        \A t \in DOMAIN teams :
            teams[t].tieWins = DistinctOpponentWins(games, teams, t)

----------------------------------------------------------------------------
(* Properties of the whole program *)

WinsColumn(T) == [t \in DOMAIN T |-> T[t].wins]

\* the wins the outcomes of the first n games give a team
WinsInFirst(G, n, t) ==
    Cardinality({i \in 1..n :
        \/ G[i].res = 1 /\ G[i].home = t
        \/ G[i].res = 0 /\ G[i].away = t})

InTrial == pc \in {"ds_begin", "ds_find", "ds_done", "tb_enter", "tb_multi",
                    "tb_two", "tb_ret"}

C5_SimulateStates ==
    /\ pc = "sim_game" =>
          \A t \in DOMAIN teams :
              /\ teams[t].wins = WinsInFirst(games, gameIndex - 1, t)
              /\ teams[t].place = 0
    /\ (pc \in {"sim_game", "ds_begin"} /\ gameIndex > 1) =>
          (games[gameIndex - 1].res = 1 <=> randomValue < games[gameIndex - 1].prob)
    /\ InTrial =>
          /\ SumOver(WinsColumn(teams), DOMAIN teams) = Len(games)
          /\ \A t \in DOMAIN teams : teams[t].wins = WinsInFirst(games, Len(games), t)
          /\ \A i \in 1..Len(games) : games[i].res \in {0, 1}

C5_SimulateStep ==
    /\ pc = "sim_reset" =>
          \A t \in DOMAIN teams : teams'[t].wins = 0 /\ teams'[t].place = 0
    /\ pc = "sim_game" =>
          LET g == games[gameIndex]
              won == IF randomValue' < g.prob THEN g.home ELSE g.away
          IN  /\ teams'[won].wins = teams[won].wins + 1
              /\ \A t \in DOMAIN teams \ {won} : teams'[t].wins = teams[t].wins
              /\ games'[gameIndex].res = (IF won = g.home THEN 1 ELSE 0)
              /\ \A i \in 1..Len(games) : i # gameIndex => games'[i] = games[i]

\* C5: simulateGames first sets every team's wins and placement to zero, then
\* gives each fixture to exactly one side, the reference team when the draw of
\* that game is below the stored probability and the other team otherwise; after
\* the call the wins of all teams add up to the number of fixtures and each
\* stored outcome (1: the reference team won) agrees with the team whose wins
\* were raised
C5_SimulateAwardsEachGameOnce == [] C5_SimulateStates /\ [][C5_SimulateStep]_vars

\* a second season is simulated, a game with an open probability went each way
C5_Witness ==
    /\ pc = "ds_begin"
    /\ simulationNumber >= 1
    /\ games[1].prob = 50
    /\ games[1].res = 1
    /\ \E i \in 1..Len(games) : games[i].res = 0
    /\ \E t \in DOMAIN teams : teams[t].first >= 1 /\ teams[t].place = 0

FirstColumn(T) == [t \in DOMAIN T |-> T[t].first]
SecondColumn(T) == [t \in DOMAIN T |-> T[t].second]

BetweenTrials == pc \in {"sim_reset", "sim_game", "ds_begin", "done"}

C6_CounterStates ==
    /\ BetweenTrials =>
          /\ SumOver(FirstColumn(teams), DOMAIN teams) = simulationNumber
          /\ SumOver(SecondColumn(teams), DOMAIN teams) = simulationNumber
          /\ SumOver(championshipMatchups, DOMAIN championshipMatchups)
                = simulationNumber
    /\ pc = "ds_done" =>
          /\ SumOver(FirstColumn(teams), DOMAIN teams) = simulationNumber + 1
          /\ SumOver(SecondColumn(teams), DOMAIN teams) = simulationNumber + 1
          /\ SumOver(championshipMatchups, DOMAIN championshipMatchups)
                = simulationNumber
          /\ firstPlaceTeam # secondPlaceTeam

C6_CounterStep ==
    /\ pc = "tb_ret" =>
          LET t == IF currentPlace = 1 THEN firstPlaceTeam' ELSE secondPlaceTeam'
          IN  /\ t \in DOMAIN teams
              /\ teams'[t].first = teams[t].first + (IF currentPlace = 1 THEN 1 ELSE 0)
              /\ teams'[t].second = teams[t].second + (IF currentPlace = 2 THEN 1 ELSE 0)
              /\ \A u \in DOMAIN teams \ {t} :
                    /\ teams'[u].first = teams[u].first
                    /\ teams'[u].second = teams[u].second
    /\ pc = "ds_done" =>
          LET m == <<MinOf({firstPlaceTeam, secondPlaceTeam}),
                     MaxOf({firstPlaceTeam, secondPlaceTeam})>>
          IN  /\ m \in DOMAIN championshipMatchups
              /\ championshipMatchups'[m] = championshipMatchups[m] + 1
              /\ \A q \in DOMAIN championshipMatchups \ {m} :
                    championshipMatchups'[q] = championshipMatchups[q]
              /\ simulationNumber' = simulationNumber + 1

\* C6: every trial raises the 1st-place counter of exactly one team, the 2nd-place
\* counter of exactly one other team and exactly one matchup counter, the one of
\* the pair {1st, 2nd}; after n trials each of the three families of counters
\* adds up to n
C6_OneOfEachPerTrial == [] C6_CounterStates /\ [][C6_CounterStep]_vars

\* all trials are done and the higher-named team finished first in one of them
C6_Witness ==
    /\ pc = "done"
    /\ simulationNumber >= 2
    /\ firstPlaceTeam > secondPlaceTeam
    /\ secondPlaceTeam >= 1

\* the places of the trial that resolveTiebreaker settled at random
C7_CountStates ==
    /\ totalRandomTiebreakers <= 2 * simulationNumber
    /\ pc = "ds_done" => randomTiebreakersUsed \in 0..2

C7_CountStep ==
    /\ (pc = "tb_ret" /\ currentPlace \in {1, 2}) =>
          randomTiebreakersUsed' =
              randomTiebreakersUsed + (IF step = "random" THEN 1 ELSE 0)
    /\ pc = "ds_begin" => randomTiebreakersUsed' = 0
    /\ pc = "ds_done" =>
          totalRandomTiebreakers' = totalRandomTiebreakers + randomTiebreakersUsed

\* C7, as amended: the counter counts random tie-breaks, not trials: a trial
\* raises it by the number of places (1st, 2nd) that were settled by a random
\* fallback, which is 0, 1 or 2, so after n trials it is at most 2n
C7_CountsRandomTiebreaks == [] C7_CountStates /\ [][C7_CountStep]_vars

\* a trial settled both places at random and has been recorded
C7_Witness ==
    /\ pc \in {"sim_reset", "done"}
    /\ simulationNumber >= 1
    /\ randomTiebreakersUsed = 2
    /\ totalRandomTiebreakers > simulationNumber

\* C7, as claimed: a trial that used a random fallback raises the counter by
\* exactly 1, any other trial leaves it, and after n trials it is at most n
C7_CountsTrials ==
    /\ [](totalRandomTiebreakers <= simulationNumber)
    /\ [][pc = "ds_done" =>
             totalRandomTiebreakers' =
                 totalRandomTiebreakers
                     + (IF randomTiebreakersUsed > 0 THEN 1 ELSE 0)]_vars

CsvTeams == {rawGames[i][1] : i \in 1..Len(rawGames)}
                \cup {rawGames[i][2] : i \in 1..Len(rawGames)}

CountMismatch == Len(rawGames) # (GamesPerTeam * Cardinality(CsvTeams)) \div 2

NothingSimulated ==
    /\ pc \in {"start", "load", "exit"}
    /\ games = <<>>
    /\ teams = NoTeams
    /\ championshipMatchups = NoTeams
    /\ simulationNumber = 0
    /\ totalRandomTiebreakers = 0
    /\ gameIndex = 0

\* C8: a schedule whose number of fixtures differs from 9 * teams / 2 makes
\* loadGameData exit; no trial is simulated and no accumulator changes
C8_CountMismatchIsFatal ==
    CountMismatch => (NothingSimulated /\ (pc = "load" => ~ENABLED LoadGameData))

\* a schedule that lacks games (three of them) has made the program exit
C8_Witness ==
    /\ pc = "exit"
    /\ Len(rawGames) = (GamesPerTeam * Cardinality(CsvTeams)) \div 2 - MissingRows
    /\ Cardinality(CsvTeams) >= 3

OutOfRange == \E i \in 1..Len(rawGames) : rawGames[i][3] < 0 \/ rawGames[i][3] > 100

\* C9: a schedule with a probability outside [0,1] is fatal at loading: no trial
\* is simulated
C9_OutOfRangeIsFatal == OutOfRange => NothingSimulated

----------------------------------------------------------------------------
(* Canonical form of the fixtures *)

\* the row that states the same fixture from the other team's side
SwappedRow(row) == <<row[2], row[1], 100 - row[3]>>

\* what loadGameData keeps of a fixture for the season
StoredFixture(g) == <<g.home, g.away, g.prob>>

\* the probability a raw row gives to the team t of its pair
RowProbabilityOf(row, t) == IF t = row[1] THEN row[3] ELSE 100 - row[3]

Loaded == pc \notin {"start", "load", "exit"} /\ rawGames # <<>>

----------------------------------------------------------------------------
(* Seasons without chance *)

\* every fixture is already decided
Determined(G) == \A i \in 1..Len(G) : G[i].prob \in {0, 100}

\* the side a decided fixture goes to
DecidedWinner(g) == IF g.prob = 100 THEN g.home ELSE g.away

ChampionshipPair(a, b) == <<MinOf({a, b}), MaxOf({a, b})>>

\* the outcomes and the win totals are those the probabilities dictate; as long as
\* no place was settled at random, every trial so far gave the same 1st, the same
\* 2nd and the same pair
C12_DeterminedStates ==
    (Loaded /\ Determined(games)) =>
        /\ InTrial =>
              /\ \A i \in 1..Len(games) :
                    games[i].res = (IF games[i].prob = 100 THEN 1 ELSE 0)
              /\ \A t \in DOMAIN teams :
                    teams[t].wins =
                        Cardinality({i \in 1..Len(games) : DecidedWinner(games[i]) = t})
        /\ (BetweenTrials /\ totalRandomTiebreakers = 0) =>
              \E a, b \in DOMAIN teams :
                  /\ a # b
                  /\ teams[a].first = simulationNumber
                  /\ teams[b].second = simulationNumber
                  /\ championshipMatchups[ChampionshipPair(a, b)] = simulationNumber
        /\ (pc = "ds_done" /\ totalRandomTiebreakers = 0
                /\ randomTiebreakersUsed = 0) =>
              /\ teams[firstPlaceTeam].first = simulationNumber + 1
              /\ teams[secondPlaceTeam].second = simulationNumber + 1
              /\ championshipMatchups[ChampionshipPair(firstPlaceTeam, secondPlaceTeam)]
                    = simulationNumber

\* a pair that a criterion separates gets one winner and no random flag, and
\* resolving the same pair again, on the scratch column the first resolution
\* left, ends at the same criterion with the same winner
C12_PairStep ==
    pc = "tb_two" =>
        LET r == TwoTeamPass(games, teams, winners)
            again == TwoTeamPass(games, teams', winners)
        IN  r.step # "random" =>
                /\ Cardinality(r.w) = 1
                /\ winners' = r.w
                /\ usedRandom' = FALSE
                /\ again.w = r.w
                /\ again.step = r.step

\* C12: when every fixture probability is 0 or 1, the game outcomes and the win
\* totals of a trial are fixed by the schedule whatever values are drawn, and the
\* trials give the same 1st- and 2nd-place teams as long as no tie-break reaches
\* the random step; and resolving a tied pair that a deterministic criterion
\* separates gives the same winner each time, with the random flag false
C12_DeterminedSeasonRepeats == [] C12_DeterminedStates /\ [][C12_PairStep]_vars

\* two trials of a decided season are done; 1st and 2nd had the same wins, their
\* tie was broken without chance, and both trials placed them alike
C12_Witness ==
    /\ pc = "done"
    /\ simulationNumber >= 2
    /\ Determined(games)
    /\ totalRandomTiebreakers = 0
    /\ teams[firstPlaceTeam].wins = teams[secondPlaceTeam].wins
    /\ teams[firstPlaceTeam].first = simulationNumber
    /\ teams[secondPlaceTeam].second = simulationNumber

----------------------------------------------------------------------------
(* The criteria of one pass, stated from the season *)

Faced(G, t, o) ==
    \E i \in 1..Len(G) :
        \/ G[i].home = t /\ G[i].away = o
        \/ G[i].home = o /\ G[i].away = t

\* the teams outside the group that every member has a fixture against
CommonOpponentsOf(G, T, group) ==
    {o \in DOMAIN T \ group : \A t \in group : Faced(G, t, o)}

\* the games t won against teams of O
WinsAgainst(G, t, O) ==
    Cardinality({i \in 1..Len(G) :
        \/ G[i].home = t /\ G[i].away \in O /\ G[i].res = 1
        \/ G[i].away = t /\ G[i].home \in O /\ G[i].res = 0})

\* the common opponents with exactly level wins
TierOpponents(G, T, group, level) ==
    {o \in CommonOpponentsOf(G, T, group) : T[o].wins = level}

\* the members with the most wins against O
BestAgainst(G, group, O) ==
    {t \in group : \A u \in group : WinsAgainst(G, u, O) <= WinsAgainst(G, t, O)}

\* the tiers that have a common opponent and at which the counts are not all equal
SeparatingTiers(G, T, group) ==
    {level \in 0..MaxOf({T[t].wins : t \in DOMAIN T}) :
        /\ TierOpponents(G, T, group, level) # {}
        /\ BestAgainst(G, group, TierOpponents(G, T, group, level)) # group}

InPass == pc \in {"tb_multi", "tb_two"}

C13_TierStates ==
    InPass => findCommonOpponents(games, teams, winners)
                  = CommonOpponentsOf(games, teams, winners)

C13_TierStep ==
    (InPass /\ step' # "h2h") =>
        LET tiers == SeparatingTiers(games, teams, winners)
            tiered == TieredCommonOpponents(games, teams, winners,
                          findCommonOpponents(games, teams, winners),
                          MaxOf({teams[t].wins : t \in DOMAIN teams}),
                          TieWinsOf(teams))
        IN  IF tiers = {}
            THEN step' # "tier" /\ tiered.w = winners
            ELSE LET first == TierOpponents(games, teams, winners, MaxOf(tiers))
                 IN  /\ step' = "tier"
                     /\ winners' = BestAgainst(games, winners, first)
                     /\ \A t \in winners :
                           teams'[t].tieWins = WinsAgainst(games, t, first)

\* C13: the common opponents of a group are the teams outside it that every
\* member has a fixture against; when head-to-head has not shrunk the group, the
\* tiers are taken from the highest win total of the conference down to 0, and the
\* first tier that has a common opponent and at which the members' wins against
\* the opponents of that tier are not all equal reduces the group to the members
\* with the most such wins, the scratch column holding the counts of that tier
\* and of no lower one; when no tier separates, the criterion leaves the group
C13_TieredCommonOpponents == [] C13_TierStates /\ [][C13_TierStep]_vars

\* three or more tied teams were reduced at a tier although a lower tier
\* separates them too, and in favour of other teams
C13_Witness ==
    /\ pc \in {"tb_multi", "tb_two", "tb_ret"}
    /\ iters = 1
    /\ step = "tier"
    /\ Cardinality(tiedTeams) >= 3
    /\ LET tiers == SeparatingTiers(games, teams, tiedTeams)
       IN  /\ Cardinality(tiers) >= 2
           /\ BestAgainst(games, tiedTeams,
                          TierOpponents(games, teams, tiedTeams, MinOf(tiers)))
                 # winners

\* the games a member won against other members of the group
IntraGroupWins(G, t, group) ==
    Cardinality({i \in Meetings(G, group) :
        \/ G[i].res = 1 /\ G[i].home = t
        \/ G[i].res = 0 /\ G[i].away = t})

\* the members with the most wins inside the group
IntraGroupBest(G, group) ==
    {t \in group :
        \A u \in group : IntraGroupWins(G, u, group) <= IntraGroupWins(G, t, group)}

\* the members with a win over each of the k - 1 others
IntraGroupSweep(G, group) ==
    {t \in group : IntraGroupWins(G, t, group) = Cardinality(group) - 1}

\* the members that met another member and lost to none of those they met
BeatAllFaced(G, group) ==
    {t \in group :
        /\ \E i \in Meetings(G, group) : G[i].home = t \/ G[i].away = t
        /\ \A i \in Meetings(G, group) :
              /\ G[i].home = t => G[i].res = 1
              /\ G[i].away = t => G[i].res = 0}

PairsOf(k) == (k * (k - 1)) \div 2

\* what the head-to-head criterion is to leave of the group, the relaxed rule
\* keeping the set relaxed
HeadToHeadKeeps(G, group, relaxed) ==
    IF Cardinality(Meetings(G, group)) = PairsOf(Cardinality(group))
    THEN IntraGroupBest(G, group)
    ELSE IF relaxed # {} THEN relaxed ELSE group

\* a pass of the multi-team loop follows head-to-head with the set kept
HeadToHeadStep(kept) ==
    pc = "tb_multi" =>
        IF kept # winners
        THEN /\ step' = "h2h"
             /\ winners' = kept
             /\ \A t \in winners :
                   teams'[t].tieWins = IntraGroupWins(games, t, winners)
        ELSE step' # "h2h"

CommonLevels(G, T, group) == {T[o].wins : o \in CommonOpponentsOf(G, T, group)}

\* no pass ends at the record against all common opponents
C15_AllStates == step # "all"

\* a pass that neither head-to-head nor a tier ends finds all members with the
\* same number of wins against the common opponents, criterion 3 returns the
\* group as it got it, and the pass goes on to the strength of schedule
C15_AllStep ==
    (InPass /\ step' \notin {"h2h", "tier"}) =>
        LET common == findCommonOpponents(games, teams, winners)
        IN  /\ \A a, b \in winners :
                  WinsAgainst(games, a, common) = WinsAgainst(games, b, common)
            /\ RecordVsAllCommon(games, teams, winners, common,
                                 TieWinsOf(teams)).w = winners
            /\ step' \in {"sos", "random"}
            /\ \A t \in winners :
                  teams'[t].tieWins = OpponentWinsUpTo(games, teams, t, Len(games))

\* C15: the record against all common opponents never changes the candidate
\* set, with two teams or more: when the tiers have all been gone through
\* without shrinking the group, the members have equal wins against the whole
\* set of common opponents, and the pass goes on to the strength of schedule
\* with the group as it was
C15_RecordVsAllNeverDecides == [] C15_AllStates /\ [][C15_AllStep]_vars

\* three or more tied teams with common opponents at two win totals, each member
\* with a win against them, went on to the strength of schedule
C15_Witness ==
    /\ pc \in {"tb_multi", "tb_two", "tb_ret"}
    /\ iters = 1
    /\ step \in {"sos", "random"}
    /\ Cardinality(tiedTeams) >= 3
    /\ Cardinality(CommonLevels(games, teams, tiedTeams)) >= 2
    /\ \A t \in tiedTeams :
          WinsAgainst(games, t, CommonOpponentsOf(games, teams, tiedTeams)) >= 1

====
